---------------------------- MODULE Spec2Model ----------------------------
(***************************************************************************)
(* Model of generate_awesome_list.py: the activity classifier              *)
(* (is_inactive), the category classifier (categorize_repo), the entry     *)
(* formatter (format_repo_entry), the renderer (generate_readme) and the   *)
(* driver (fetch_starred_repos, main).                                     *)
(*                                                                         *)
(* Text is modelled as a sequence of one-character strings so that         *)
(* lower(), strip(), join() and the substring test "k in s" are computed   *)
(* and not assumed.  An optional value (None or a value) is a sequence of  *)
(* length 0 or 1.  Time is counted in ticks, TicksPerDay ticks to a day.   *)
(***************************************************************************)
EXTENDS Integers, Sequences, FiniteSets, TLC

VARIABLES
    now,        \* datetime.now(timezone.utc), in ticks
    repo,       \* argument of a direct call of one of the three functions
    months,     \* argument "months" of is_inactive
    ret,        \* the last call and what it returned
    response,   \* what the gh subprocess will answer: exit status and stdout lines
    pc,         \* position of main
    repos,      \* the list main got from fetch_starred_repos / the last argument of generate_readme
    catRepos,   \* CATEGORIES[c]['repos'] for every category c (module-level state)
    doc,        \* Some(document returned by the last generate_readme), None before
    readme,     \* the file README.md: how often it was written and its content
    exitCode,   \* None while the process runs, Some(status) once it ended
    fetchCalls, \* number of subprocess.run calls made
    calls       \* number of generate_readme calls made in this process

vars == << now, repo, months, ret, response, pc, repos, catRepos, doc,
           readme, exitCode, fetchCalls, calls >>

-----------------------------------------------------------------------------
(* Bounds of the model *)

TicksPerDay == 2      \* resolution of the clock
MaxTick     == 2      \* how far the clock may advance in a behaviour
MaxRepos    == 3      \* longest list of records fetched
MaxCalls    == 2      \* generate_readme calls in one process (SpecCalls)

DefaultMonths == 12   \* default of the parameter "months"
FreshDays     == 30
RecentDays    == 90
DaysPerMonth  == 30

Now0 == 1000 * TicksPerDay

-----------------------------------------------------------------------------
(* Optional values and text *)

None    == << >>
Some(x) == << x >>
Val(o)    == o[1]

\* Python truthiness of an optional string: None and "" are falsy
Truthy(o) == o # None /\ Val(o) # << >>

\* the same for an optional timestamp string
TruthyTs(o) == o # None /\ Val(o).form # "empty"

Upper == <<"A","B","C","D","E","F","G","H","I","J","K","L","M",
           "N","O","P","Q","R","S","T","U","V","W","X","Y","Z">>
Lower == <<"a","b","c","d","e","f","g","h","i","j","k","l","m",
           "n","o","p","q","r","s","t","u","v","w","x","y","z">>

LowerChar(c) ==
    IF \E i \in 1..Len(Upper) : Upper[i] = c
    THEN Lower[CHOOSE i \in 1..Len(Upper) : Upper[i] = c]
    ELSE c

\* str.lower()
lower(s) == [i \in 1..Len(s) |-> LowerChar(s[i])]

IsSpace(c) == c \in {" ", "\t", "\n"}

RECURSIVE lstrip(_)
lstrip(s) == IF s # << >> /\ IsSpace(Head(s)) THEN lstrip(Tail(s)) ELSE s

RECURSIVE rstrip(_)
rstrip(s) ==
    IF s # << >> /\ IsSpace(s[Len(s)]) THEN rstrip(SubSeq(s, 1, Len(s) - 1)) ELSE s

\* str.strip()
strip(s) == rstrip(lstrip(s))

\* ' '.join(parts)
RECURSIVE join(_)
join(parts) ==
    IF parts = << >> THEN << >>
    ELSE IF Len(parts) = 1 THEN parts[1]
    ELSE parts[1] \o <<" ">> \o join(Tail(parts))

\* the Python test "k in s" on strings
Contains(k, s) ==
    \E i \in 1..(Len(s) - Len(k) + 1) :
        \A j \in 1..Len(k) : s[i + j - 1] = k[j]

-----------------------------------------------------------------------------
(* The category table, in declaration order *)

CATEGORIES ==
    << [ id |-> "ai-ml", keywords |-> <<
         <<"a","i">>,
         <<"m","a","c","h","i","n","e","-","l","e","a","r","n","i","n","g">>,
         <<"d","e","e","p","-","l","e","a","r","n","i","n","g">>,
         <<"l","l","m">>,
         <<"g","p","t">>,
         <<"o","p","e","n","a","i">>,
         <<"c","l","a","u","d","e">>,
         <<"a","i","-","a","g","e","n","t">>,
         <<"a","r","t","i","f","i","c","i","a","l","-","i","n","t","e","l","l","i","g","e","n","c","e">>,
         <<"c","h","a","t","g","p","t">>,
         <<"n","e","u","r","a","l">>,
         <<"t","r","a","n","s","f","o","r","m","e","r">>,
         <<"b","e","r","t">>,
         <<"p","y","t","o","r","c","h">>,
         <<"t","e","n","s","o","r","f","l","o","w">>,
         <<"a","n","t","h","r","o","p","i","c">>,
         <<"g","e","m","i","n","i">>
       >> ],
       [ id |-> "web-frontend", keywords |-> <<
         <<"r","e","a","c","t">>,
         <<"v","u","e">>,
         <<"a","n","g","u","l","a","r">>,
         <<"s","v","e","l","t","e">>,
         <<"f","r","o","n","t","e","n","d">>,
         <<"n","e","x","t","j","s">>,
         <<"r","e","m","i","x">>,
         <<"s","o","l","i","d">>,
         <<"p","r","e","a","c","t">>,
         <<"a","s","t","r","o">>,
         <<"q","w","i","k">>,
         <<"u","i">>,
         <<"c","o","m","p","o","n","e","n","t","s">>,
         <<"t","a","i","l","w","i","n","d","c","s","s">>
       >> ],
       [ id |-> "web-fullstack", keywords |-> <<
         <<"n","e","x","t","j","s">>,
         <<"r","e","m","i","x">>,
         <<"n","u","x","t">>,
         <<"s","v","e","l","t","e","k","i","t">>,
         <<"f","u","l","l","-","s","t","a","c","k">>,
         <<"f","u","l","l","s","t","a","c","k">>,
         <<"w","e","b","-","f","r","a","m","e","w","o","r","k">>,
         <<"s","s","r">>,
         <<"s","e","r","v","e","r","-","s","i","d","e","-","r","e","n","d","e","r","i","n","g">>
       >> ],
       [ id |-> "backend-api", keywords |-> <<
         <<"b","a","c","k","e","n","d">>,
         <<"a","p","i">>,
         <<"r","e","s","t">>,
         <<"g","r","a","p","h","q","l">>,
         <<"g","r","p","c">>,
         <<"e","x","p","r","e","s","s">>,
         <<"f","a","s","t","a","p","i">>,
         <<"f","l","a","s","k">>,
         <<"d","j","a","n","g","o">>,
         <<"n","e","s","t","j","s">>,
         <<"f","a","s","t","i","f","y">>,
         <<"g","i","n">>,
         <<"a","c","t","i","x">>,
         <<"a","x","u","m">>,
         <<"d","a","t","a","b","a","s","e">>,
         <<"o","r","m">>,
         <<"p","r","i","s","m","a">>,
         <<"d","r","i","z","z","l","e">>,
         <<"t","y","p","e","o","r","m">>,
         <<"a","u","t","h","e","n","t","i","c","a","t","i","o","n">>
       >> ],
       [ id |-> "devops", keywords |-> <<
         <<"d","o","c","k","e","r">>,
         <<"k","u","b","e","r","n","e","t","e","s">>,
         <<"k","8","s">>,
         <<"d","e","v","o","p","s">>,
         <<"c","i","-","c","d">>,
         <<"d","e","p","l","o","y","m","e","n","t">>,
         <<"i","n","f","r","a","s","t","r","u","c","t","u","r","e">>,
         <<"t","e","r","r","a","f","o","r","m">>,
         <<"a","n","s","i","b","l","e">>,
         <<"m","o","n","i","t","o","r","i","n","g">>,
         <<"o","b","s","e","r","v","a","b","i","l","i","t","y">>,
         <<"p","r","o","m","e","t","h","e","u","s">>,
         <<"g","r","a","f","a","n","a">>,
         <<"c","i","c","d">>,
         <<"g","i","t","h","u","b","-","a","c","t","i","o","n","s">>,
         <<"g","i","t","l","a","b","-","c","i">>
       >> ],
       [ id |-> "dev-tools", keywords |-> <<
         <<"c","l","i">>,
         <<"t","e","r","m","i","n","a","l">>,
         <<"c","o","m","m","a","n","d","-","l","i","n","e">>,
         <<"s","h","e","l","l">>,
         <<"v","s","c","o","d","e">>,
         <<"e","d","i","t","o","r">>,
         <<"e","x","t","e","n","s","i","o","n">>,
         <<"p","l","u","g","i","n">>,
         <<"t","e","s","t","i","n","g">>,
         <<"t","e","s","t">>,
         <<"j","e","s","t">>,
         <<"v","i","t","e","s","t">>,
         <<"c","y","p","r","e","s","s">>,
         <<"p","l","a","y","w","r","i","g","h","t">>,
         <<"g","i","t">>,
         <<"l","i","n","t","e","r">>,
         <<"f","o","r","m","a","t","t","e","r">>,
         <<"p","r","e","t","t","i","e","r">>,
         <<"e","s","l","i","n","t">>
       >> ],
       [ id |-> "data-analytics", keywords |-> <<
         <<"d","a","t","a","-","s","c","i","e","n","c","e">>,
         <<"d","a","t","a","-","a","n","a","l","y","s","i","s">>,
         <<"v","i","s","u","a","l","i","z","a","t","i","o","n">>,
         <<"a","n","a","l","y","t","i","c","s">>,
         <<"j","u","p","y","t","e","r">>,
         <<"p","a","n","d","a","s">>,
         <<"n","u","m","p","y">>,
         <<"p","l","o","t","l","y">>,
         <<"d","3">>,
         <<"c","h","a","r","t">>,
         <<"d","a","s","h","b","o","a","r","d">>,
         <<"b","u","s","i","n","e","s","s","-","i","n","t","e","l","l","i","g","e","n","c","e">>,
         <<"b","i">>,
         <<"d","a","t","a","-","v","i","s","u","a","l","i","z","a","t","i","o","n">>
       >> ],
       [ id |-> "mobile", keywords |-> <<
         <<"r","e","a","c","t","-","n","a","t","i","v","e">>,
         <<"f","l","u","t","t","e","r">>,
         <<"m","o","b","i","l","e">>,
         <<"i","o","s">>,
         <<"a","n","d","r","o","i","d">>,
         <<"e","x","p","o">>,
         <<"k","o","t","l","i","n">>,
         <<"s","w","i","f","t">>,
         <<"m","o","b","i","l","e","-","a","p","p">>
       >> ],
       [ id |-> "design-creative", keywords |-> <<
         <<"d","e","s","i","g","n">>,
         <<"a","n","i","m","a","t","i","o","n">>,
         <<"3","d">>,
         <<"g","r","a","p","h","i","c","s">>,
         <<"s","v","g">>,
         <<"c","a","n","v","a","s">>,
         <<"w","e","b","g","l">>,
         <<"t","h","r","e","e">>,
         <<"t","h","r","e","e","j","s">>,
         <<"f","r","a","m","e","r">>,
         <<"m","o","t","i","o","n">>,
         <<"g","s","a","p">>,
         <<"i","c","o","n">>,
         <<"f","i","g","m","a">>
       >> ],
       [ id |-> "learning", keywords |-> <<
         <<"a","w","e","s","o","m","e">>,
         <<"a","w","e","s","o","m","e","-","l","i","s","t">>,
         <<"t","u","t","o","r","i","a","l">>,
         <<"g","u","i","d","e">>,
         <<"l","e","a","r","n","i","n","g">>,
         <<"e","d","u","c","a","t","i","o","n">>,
         <<"c","o","u","r","s","e">>,
         <<"b","o","o","k">>,
         <<"d","o","c","u","m","e","n","t","a","t","i","o","n">>,
         <<"c","h","e","a","t","s","h","e","e","t">>,
         <<"e","x","a","m","p","l","e","s">>,
         <<"r","e","s","o","u","r","c","e","s">>
       >> ],
       [ id |-> "security", keywords |-> <<
         <<"s","e","c","u","r","i","t","y">>,
         <<"p","r","i","v","a","c","y">>,
         <<"e","n","c","r","y","p","t","i","o","n">>,
         <<"c","r","y","p","t","o","g","r","a","p","h","y">>,
         <<"v","u","l","n","e","r","a","b","i","l","i","t","y">>,
         <<"p","e","n","e","t","r","a","t","i","o","n","-","t","e","s","t","i","n","g">>,
         <<"i","n","f","o","s","e","c">>,
         <<"c","y","b","e","r","s","e","c","u","r","i","t","y">>,
         <<"a","u","t","h">>,
         <<"o","a","u","t","h">>
       >> ],
       [ id |-> "utilities", keywords |-> <<
       >> ] >>

CatIndex == 1..Len(CATEGORIES)

CategoryIds == {CATEGORIES[i].id : i \in CatIndex}

CatchAll == "utilities"

-----------------------------------------------------------------------------
(* Timestamps.  A timestamp string is kept as its lexical form and the     *)
(* instant it denotes: "z" is an ISO 8601 string ending in Z, "offset" one *)
(* with a numeric UTC offset, "naive" one without any offset and "garbage" *)
(* a string that is not ISO 8601.                                          *)

\* pushed_at.replace('Z', '+00:00')
replaceZ(s) == IF s.form = "z" THEN [s EXCEPT !.form = "offset"] ELSE s

\* datetime.fromisoformat: a datetime, aware or naive, or ValueError
fromisoformat(s) ==
    CASE s.form = "offset" -> [exc |-> "", aware |-> TRUE,  t |-> s.t]
      [] s.form = "naive"  -> [exc |-> "", aware |-> FALSE, t |-> s.t]
      [] OTHER             -> [exc |-> "ValueError", aware |-> FALSE, t |-> 0]

\* the exceptions both try blocks catch: except (ValueError, TypeError)
Caught == {"ValueError", "TypeError"}

-----------------------------------------------------------------------------
(* is_inactive *)

\* timedelta(days=months * 30), in ticks
Window(m) == m * DaysPerMonth * TicksPerDay

\* variant: the comparison with the cutoff is not strict
InactiveTry_le(r, m, t) ==
    LET pushed_date == fromisoformat(replaceZ(Val(r.pushed_at)))
        cutoff_date == t - Window(m)
    IN  IF pushed_date.exc # "" THEN [exc |-> pushed_date.exc, value |-> FALSE]
        ELSE IF ~pushed_date.aware THEN [exc |-> "TypeError", value |-> FALSE]
        ELSE [exc |-> "", value |-> pushed_date.t <= cutoff_date]

\* the body of the try block; comparing a naive datetime with the aware
\* cutoff raises TypeError
InactiveTry(r, m, t) ==
    LET pushed_date == fromisoformat(replaceZ(Val(r.pushed_at)))
        cutoff_date == t - Window(m)
    IN  IF pushed_date.exc # "" THEN [exc |-> pushed_date.exc, value |-> FALSE]
        ELSE IF ~pushed_date.aware THEN [exc |-> "TypeError", value |-> FALSE]
        ELSE [exc |-> "", value |-> pushed_date.t < cutoff_date]

\* variant: the try block has no handler
is_inactive_nocatch(r, m, t) ==
    IF r.archived THEN [exc |-> "", value |-> TRUE]
    ELSE IF ~TruthyTs(r.pushed_at) THEN [exc |-> "", value |-> TRUE]
    ELSE InactiveTry(r, m, t)

is_inactive(r, m, t) ==
    IF r.archived THEN [exc |-> "", value |-> TRUE]
    ELSE IF ~TruthyTs(r.pushed_at) THEN [exc |-> "", value |-> TRUE]
    ELSE LET b == InactiveTry(r, m, t)
         IN  IF b.exc \in Caught THEN [exc |-> "", value |-> TRUE] ELSE b

-----------------------------------------------------------------------------
(* categorize_repo *)

OrEmpty(o) == IF Truthy(o) THEN Val(o) ELSE << >>

\* ' '.join(topics + [description, language])
search_text(r) ==
    join(r.topics \o << lower(OrEmpty(r.description)), lower(OrEmpty(r.language)) >>)

\* the inner loop: one increment for every keyword found in the text
RECURSIVE CountKeywords(_, _)
CountKeywords(kws, text) ==
    IF kws = << >> THEN 0
    ELSE (IF Contains(Head(kws), text) THEN 1 ELSE 0) + CountKeywords(Tail(kws), text)

\* the dictionary "scores" as its items in insertion order: a category gets
\* a key when its first keyword matches, so the keys are in table order
RECURSIVE ScoreItems(_, _)
ScoreItems(i, text) ==
    IF i > Len(CATEGORIES) THEN << >>
    ELSE LET c == CATEGORIES[i]
             n == IF c.id = CatchAll THEN 0 ELSE CountKeywords(c.keywords, text)
         IN  (IF n > 0 THEN << [id |-> c.id, n |-> n] >> ELSE << >>)
             \o ScoreItems(i + 1, text)

\* variant: the last item with the greatest key
RECURSIVE MaxItem_last(_, _)
MaxItem_last(best, rest) ==
    IF rest = << >> THEN best
    ELSE MaxItem_last(IF Head(rest).n >= best.n THEN Head(rest) ELSE best, Tail(rest))

\* max(items, key=...): the first item with the greatest key
RECURSIVE MaxItem(_, _)
MaxItem(best, rest) ==
    IF rest = << >> THEN best
    ELSE MaxItem(IF Head(rest).n > best.n THEN Head(rest) ELSE best, Tail(rest))

categorize_repo(r) ==
    LET scores == ScoreItems(1, search_text(r))
    IN  IF scores # << >> THEN MaxItem(Head(scores), Tail(scores)).id
        ELSE CatchAll

-----------------------------------------------------------------------------
(* format_repo_entry.  The entry is kept as the pieces the f-strings put   *)
(* together: the link, the optional description part, the star count, the *)
(* optional language span and the badge.                                   *)

NoDescription ==
    <<"N","o"," ","d","e","s","c","r","i","p","t","i","o","n"," ",
      "p","r","o","v","i","d","e","d">>

Unknown == <<"U","n","k","n","o","w","n">>

FreshBadge  == "fresh"     \* the fire glyph
RecentBadge == "recent"    \* the lightning glyph
NoBadge     == ""

\* variant: the thresholds are inclusive
BadgeTry_le(r, t) ==
    LET pushed_date == fromisoformat(replaceZ(Val(r.pushed_at)))
    IN  IF pushed_date.exc # "" THEN [exc |-> pushed_date.exc, value |-> NoBadge]
        ELSE IF ~pushed_date.aware THEN [exc |-> "TypeError", value |-> NoBadge]
        ELSE LET days_ago == (t - pushed_date.t) \div TicksPerDay
             IN  [exc |-> "",
                  value |-> IF days_ago <= FreshDays THEN FreshBadge
                            ELSE IF days_ago <= RecentDays THEN RecentBadge
                            ELSE NoBadge]

\* the body of the try block; subtracting a naive datetime from the aware
\* "now" raises TypeError; timedelta.days is the floor of the difference
BadgeTry(r, t) ==
    LET pushed_date == fromisoformat(replaceZ(Val(r.pushed_at)))
    IN  IF pushed_date.exc # "" THEN [exc |-> pushed_date.exc, value |-> NoBadge]
        ELSE IF ~pushed_date.aware THEN [exc |-> "TypeError", value |-> NoBadge]
        ELSE LET days_ago == (t - pushed_date.t) \div TicksPerDay
             IN  [exc |-> "",
                  value |-> IF days_ago < FreshDays THEN FreshBadge
                            ELSE IF days_ago < RecentDays THEN RecentBadge
                            ELSE NoBadge]

Activity(r, show_activity, t) ==
    IF show_activity /\ TruthyTs(r.pushed_at)
    THEN LET b == BadgeTry(r, t)
         IN  IF b.exc \in Caught THEN [exc |-> "", value |-> NoBadge] ELSE b
    ELSE [exc |-> "", value |-> NoBadge]

format_repo_entry(r, show_activity, t) ==
    LET description == strip(IF Truthy(r.description) THEN Val(r.description)
                             ELSE NoDescription)
        language    == r.language
        activity    == Activity(r, show_activity, t)
    IN  [exc         |-> activity.exc,
         name        |-> r.name,
         url         |-> r.html_url,
         description |-> IF description # << >> THEN Some(description) ELSE None,
         stars       |-> r.stargazers_count,
         language    |-> IF Truthy(language) /\ Val(language) # Unknown
                         THEN language ELSE None,
         activity    |-> activity.value]

-----------------------------------------------------------------------------
(* generate_readme *)

\* variant: the loop files every record under both lists
SelectActive_all(rs, t, drop) == rs

RECURSIVE SelectActive(_, _, _)
SelectActive(rs, t, drop) ==
    IF rs = << >> THEN << >>
    ELSE (IF is_inactive(Head(rs), DefaultMonths, t).value = drop
          THEN << >> ELSE << Head(rs) >>)
         \o SelectActive(Tail(rs), t, drop)

\* the records the first loop puts in active_repos / in inactive_repos
active_repos(rs, t)   == SelectActive(rs, t, TRUE)
inactive_repos(rs, t) == SelectActive(rs, t, FALSE)

\* the second loop: CATEGORIES[category]['repos'].append(repo) for every
\* active record; the lists are not cleared first
RECURSIVE AppendAll(_, _)
AppendAll(cats, act) ==
    IF act = << >> THEN cats
    ELSE AppendAll([cats EXCEPT ![categorize_repo(Head(act))] = Append(@, Head(act))],
                   Tail(act))

\* variant: a sort that is not stable, records with equal stars change places
RECURSIVE InsertDesc_gt(_, _)
InsertDesc_gt(sorted, x) ==
    IF sorted = << >> THEN << x >>
    ELSE IF Head(sorted).stargazers_count > x.stargazers_count
         THEN << Head(sorted) >> \o InsertDesc_gt(Tail(sorted), x)
         ELSE << x >> \o sorted

\* list.sort(key=stars, reverse=True): stable, so a record goes behind every
\* record already placed that has at least as many stars
RECURSIVE InsertDesc(_, _)
InsertDesc(sorted, x) ==
    IF sorted = << >> THEN << x >>
    ELSE IF Head(sorted).stargazers_count >= x.stargazers_count
         THEN << Head(sorted) >> \o InsertDesc(Tail(sorted), x)
         ELSE << x >> \o sorted

RECURSIVE SortByStars(_, _)
SortByStars(done, todo) ==
    IF todo = << >> THEN done
    ELSE SortByStars(InsertDesc(done, Head(todo)), Tail(todo))

sort_by_stars(rs) == SortByStars(<< >>, rs)

Entries(rs, show_activity, t) ==
    [i \in 1..Len(rs) |-> format_repo_entry(rs[i], show_activity, t)]

\* variant: the catch-all gets a line only when it has records
RECURSIVE TocLines_nonempty(_, _)
TocLines_nonempty(i, cats) ==
    IF i > Len(CATEGORIES) THEN << >>
    ELSE LET id == CATEGORIES[i].id
         IN  (IF cats[id] # << >>
              THEN << [id |-> id, count |-> Len(cats[id])] >> ELSE << >>)
             \o TocLines_nonempty(i + 1, cats)

\* the table of contents: a line for every category with records and for the
\* catch-all, with len(category_data['repos'])
RECURSIVE TocLines(_, _)
TocLines(i, cats) ==
    IF i > Len(CATEGORIES) THEN << >>
    ELSE LET id == CATEGORIES[i].id
         IN  (IF cats[id] # << >> \/ id = CatchAll
              THEN << [id |-> id, count |-> Len(cats[id])] >> ELSE << >>)
             \o TocLines(i + 1, cats)

\* the category sections: skipped when the list is empty
RECURSIVE Sections(_, _, _)
Sections(i, cats, t) ==
    IF i > Len(CATEGORIES) THEN << >>
    ELSE LET id == CATEGORIES[i].id
         IN  (IF cats[id] # << >>
              THEN << [id      |-> id,
                       count   |-> Len(cats[id]),
                       entries |-> Entries(cats[id], TRUE, t)] >>
              ELSE << >>)
             \o Sections(i + 1, cats, t)

\* the returned document, kept as the parts the function appends to
\* "readme", and the category lists the call leaves behind; the readings of
\* the clock during one call are taken at one instant t
generate_readme(cats, rs, t) ==
    LET act   == active_repos(rs, t)
        inact == sort_by_stars(inactive_repos(rs, t))
        app   == AppendAll(cats, act)
        after == [c \in CategoryIds |-> sort_by_stars(app[c])]
    IN  [readme |->
           [total         |-> Len(rs),
            active        |-> Len(act),
            legacy        |-> Len(inact),
            toc           |-> TocLines(1, after),
            tocLegacy     |-> Len(inact),
            sections      |-> Sections(1, after, t),
            legacyCount   |-> Len(inact),
            legacyEntries |-> Entries(inact, FALSE, t)],
         CATEGORIES |-> after]

-----------------------------------------------------------------------------
(* fetch_starred_repos: the answer of the gh subprocess is its exit status *)
(* and the lines of its standard output; a line is blank, a JSON object or *)
(* text that json.loads rejects.                                           *)

\* variant: a malformed line is skipped like a blank one
RECURSIVE ParseLines_skip(_)
ParseLines_skip(lines) ==
    IF lines = << >> THEN [exc |-> "", repos |-> << >>]
    ELSE IF Head(lines).kind \in {"blank", "bad"} THEN ParseLines_skip(Tail(lines))
    ELSE LET rest == ParseLines_skip(Tail(lines))
         IN  [exc |-> "", repos |-> << Head(lines).rec >> \o rest.repos]

\* the loop over result.stdout.strip().split('\n'): blank lines are skipped,
\* json.loads raises JSONDecodeError on a malformed line
RECURSIVE ParseLines(_)
ParseLines(lines) ==
    IF lines = << >> THEN [exc |-> "", repos |-> << >>]
    ELSE IF Head(lines).kind = "blank" THEN ParseLines(Tail(lines))
    ELSE IF Head(lines).kind = "bad" THEN [exc |-> "JSONDecodeError", repos |-> << >>]
    ELSE LET rest == ParseLines(Tail(lines))
         IN  IF rest.exc # "" THEN rest
             ELSE [exc |-> "", repos |-> << Head(lines).rec >> \o rest.repos]

\* check=True raises CalledProcessError on a non-zero exit status; only that
\* exception is handled (sys.exit(1)), any other leaves the function
fetch_starred_repos(resp) ==
    IF resp.status # 0 THEN [exc |-> "SystemExit", repos |-> << >>]
    ELSE ParseLines(resp.lines)

-----------------------------------------------------------------------------
(* Inputs *)

T_react      == <<"r","e","a","c","t">>
T_React      == <<"R","e","a","c","t">>
T_ui         == <<"u","i">>
T_nextjs     == <<"n","e","x","t","j","s">>
T_cli        == <<"c","l","i">>
T_linter     == <<"l","i","n","t","e","r">>
T_CliLinter  == <<"a"," ","C","L","I"," ","l","i","n","t","e","r">>
T_Aisle      == <<"c","o","n","t","a","i","n","s"," ","a","i","s","l","e">>
T_Padded     == <<" ","t","o","o","l"," ">>
T_Blank      == <<" "," ">>
T_TypeScript == <<"T","y","p","e","S","c","r","i","p","t">>
T_Go         == <<"G","o">>
T_Swift      == <<"S","w","i","f","t">>

Ts(form, age) == Some([form |-> form, t |-> Now0 - age])

Descriptions ==
    { None, Some(<< >>), Some(T_Blank), Some(T_Padded), Some(T_CliLinter), Some(T_Aisle) }

Languages == { None, Some(T_TypeScript), Some(T_Go), Some(T_Swift) }

TopicLists == { << >>, << T_react, T_ui >>, << T_nextjs >>, << T_React >>,
                << T_cli, T_linter >> }

PushedAts ==
    { None, Ts("empty", 0), Ts("garbage", 0), Ts("naive", 0), Ts("offset", 0),
      Ts("z", 0 - 1),
      Ts("z", FreshDays * TicksPerDay - 1),
      Ts("z", RecentDays * TicksPerDay - 1),
      Ts("z", DefaultMonths * DaysPerMonth * TicksPerDay - 1),
      Ts("z", 400 * TicksPerDay) }

MonthsArgs == { 3, DefaultMonths }

\* the records the three functions are called on directly: every text with
\* one timestamp, and every timestamp and flag with every description
FnRecords ==
    [ name : {"n1"}, html_url : {"u1"}, stargazers_count : {5},
      description : Descriptions, language : Languages, topics : TopicLists,
      pushed_at : {Ts("z", 0)}, archived : {FALSE} ]
    \cup
    [ name : {"n1"}, html_url : {"u1"}, stargazers_count : {1234},
      description : Descriptions, language : {None}, topics : {<< >>},
      pushed_at : PushedAts, archived : BOOLEAN ]

\* the records of a fetched list, by kind; the i-th line names repository i
Profiles == {"frontend5", "frontend9", "edge5", "misc7", "archived7", "null9"}

Profile(p, i) ==
    LET base == [ name |-> <<"n", i>>, html_url |-> <<"u", i>>,
                  description |-> None, language |-> None,
                  stargazers_count |-> 5, topics |-> << >>,
                  pushed_at |-> Ts("z", 0), archived |-> FALSE ]
    IN  CASE p = "frontend5" ->
               [base EXCEPT !.topics = << T_react, T_ui >>, !.language = Some(T_TypeScript)]
          [] p = "frontend9" ->
               [base EXCEPT !.topics = << T_react >>, !.stargazers_count = 9,
                            !.description = Some(T_Blank)]
          [] p = "edge5" ->
               [base EXCEPT !.topics = << T_nextjs >>,
                            !.pushed_at = Ts("z", DefaultMonths * DaysPerMonth * TicksPerDay - 1)]
          [] p = "misc7" ->
               [base EXCEPT !.stargazers_count = 7,
                            !.pushed_at = Ts("offset", 40 * TicksPerDay)]
          [] p = "archived7" ->
               [base EXCEPT !.topics = << T_react >>, !.stargazers_count = 7,
                            !.archived = TRUE]
          [] OTHER ->
               [base EXCEPT !.stargazers_count = 9, !.pushed_at = None]

LineKinds == Profiles \cup {"blank", "bad"}

Line(k, i) ==
    IF k \in Profiles THEN [kind |-> "json", rec |-> Profile(k, i)]
    ELSE [kind |-> k, rec |-> Profile("null9", i)]

Lines(kinds) == [i \in 1..Len(kinds) |-> Line(kinds[i], i)]

KindLists(S) == UNION { [1..n -> S] : n \in 0..MaxRepos }

Responses ==
    { [status |-> 0, lines |-> Lines(ks)] : ks \in KindLists(LineKinds) }
    \cup { [status |-> 1, lines |-> << >>] }

NoRecord == Profile("null9", 0)

EmptyCategories == [c \in CategoryIds |-> << >>]

NoResponse == [status |-> 0, lines |-> << >>]

-----------------------------------------------------------------------------
(* The clock *)

Tick ==
    /\ now < Now0 + MaxTick
    /\ now' = now + 1
    /\ UNCHANGED << repo, months, ret, response, pc, repos, catRepos, doc,
                    readme, exitCode, fetchCalls, calls >>

-----------------------------------------------------------------------------
(* Direct calls of the three functions on one record *)

InitFn ==
    /\ now = Now0
    /\ repo \in FnRecords
    /\ months \in MonthsArgs
    /\ ret = [fn |-> "none"]
    /\ response = NoResponse
    /\ pc = "lib"
    /\ repos = << >>
    /\ catRepos = EmptyCategories
    /\ doc = None
    /\ readme = [writes |-> 0, content |-> None]
    /\ exitCode = None
    /\ fetchCalls = 0
    /\ calls = 0

FnFrame == UNCHANGED << now, repo, months, response, pc, repos, catRepos, doc,
                        readme, exitCode, fetchCalls, calls >>

CallIsInactive ==
    /\ ret' = [fn |-> "is_inactive", at |-> now,
               out |-> is_inactive(repo, months, now)]
    /\ FnFrame

CallCategorize ==
    /\ ret' = [fn |-> "categorize_repo", at |-> now, out |-> categorize_repo(repo)]
    /\ FnFrame

CallFormat ==
    \E show_activity \in BOOLEAN :
        /\ ret' = [fn |-> "format_repo_entry", at |-> now, show |-> show_activity,
                   out |-> format_repo_entry(repo, show_activity, now)]
        /\ FnFrame

NextFn == Tick \/ CallIsInactive \/ CallCategorize \/ CallFormat

SpecFn == InitFn /\ [][NextFn]_vars

-----------------------------------------------------------------------------
(* main: fetch, generate, write, report *)

Init ==
    /\ now = Now0
    /\ repo = NoRecord
    /\ months = DefaultMonths
    /\ ret = [fn |-> "none"]
    /\ response \in Responses
    /\ pc = "fetch"
    /\ repos = << >>
    /\ catRepos = EmptyCategories
    /\ doc = None
    /\ readme = [writes |-> 0, content |-> None]
    /\ exitCode = None
    /\ fetchCalls = 0
    /\ calls = 0

\* repos = fetch_starred_repos(username); sys.exit(1) or an exception that
\* nothing handles ends the process with status 1
Fetch ==
    /\ pc = "fetch"
    /\ fetchCalls' = fetchCalls + 1
    /\ LET r == fetch_starred_repos(response)
       IN  IF r.exc = ""
           THEN /\ repos' = r.repos
                /\ pc' = "generate"
                /\ UNCHANGED exitCode
           ELSE /\ pc' = "exited"
                /\ exitCode' = Some(1)
                /\ UNCHANGED repos
    /\ UNCHANGED << now, repo, months, ret, response, catRepos, doc, readme, calls >>

\* readme_content = generate_readme(repos, username)
Generate ==
    /\ pc = "generate"
    /\ \E g \in {generate_readme(catRepos, repos, now)} :
           /\ doc' = Some(g.readme)
           /\ catRepos' = g.CATEGORIES
    /\ ret' = [fn |-> "generate_readme", at |-> now]
    /\ calls' = calls + 1
    /\ pc' = "write"
    /\ UNCHANGED << now, repo, months, response, repos, readme, exitCode, fetchCalls >>

\* with open('README.md', 'w') as f: f.write(readme_content)
Write ==
    /\ pc = "write"
    /\ readme' = [writes |-> readme.writes + 1, content |-> doc]
    /\ pc' = "report"
    /\ UNCHANGED << now, repo, months, ret, response, repos, catRepos, doc,
                    exitCode, fetchCalls, calls >>

\* the closing prints; main returns and the interpreter exits with status 0
Report ==
    /\ pc = "report"
    /\ pc' = "exited"
    /\ exitCode' = Some(0)
    /\ UNCHANGED << now, repo, months, ret, response, repos, catRepos, doc,
                    readme, fetchCalls, calls >>

Next == Tick \/ Fetch \/ Generate \/ Write \/ Report

Spec == Init /\ [][Next]_vars

-----------------------------------------------------------------------------
(* A process that imports the module and calls generate_readme more than   *)
(* once: CATEGORIES is module-level state and lives as long as the process *)

CallProfiles == {"frontend5", "edge5", "archived7"}

CallInputs ==
    { [i \in 1..Len(ks) |-> Profile(ks[i], i)] :
        ks \in UNION { [1..n -> CallProfiles] : n \in 0..2 } }

InitCalls ==
    /\ now = Now0
    /\ repo = NoRecord
    /\ months = DefaultMonths
    /\ ret = [fn |-> "none"]
    /\ response = NoResponse
    /\ pc = "lib"
    /\ repos = << >>
    /\ catRepos = EmptyCategories
    /\ doc = None
    /\ readme = [writes |-> 0, content |-> None]
    /\ exitCode = None
    /\ fetchCalls = 0
    /\ calls = 0

CallGenerate ==
    /\ pc = "lib"
    /\ calls < MaxCalls
    /\ \E input \in CallInputs :
         /\ repos' = input
         /\ \E g \in {generate_readme(catRepos, input, now)} :
              /\ doc' = Some(g.readme)
              /\ catRepos' = g.CATEGORIES
    /\ ret' = [fn |-> "generate_readme", at |-> now]
    /\ calls' = calls + 1
    /\ UNCHANGED << now, repo, months, response, pc, readme, exitCode, fetchCalls >>

NextCalls == Tick \/ CallGenerate

SpecCalls == InitCalls /\ [][NextCalls]_vars

-----------------------------------------------------------------------------
(* Properties of the three functions, checked under SpecFn *)

\* the number of keywords of category i that occur in the text
Hits(i, text) ==
    Cardinality({k \in 1..Len(CATEGORIES[i].keywords) :
                    Contains(CATEGORIES[i].keywords[k], text)})

Scored == {i \in CatIndex : CATEGORIES[i].id # CatchAll}

\* C1: categorize_repo returns one category: the first category in
\* declaration order whose number of keywords occurring in the search text is
\* the greatest, and "utilities" when no keyword of any category occurs.
C1_Categorize ==
    ret.fn = "categorize_repo" =>
        LET text == search_text(repo)
            hits == [i \in Scored |-> Hits(i, text)]
        IN  /\ ret.out \in CategoryIds
            /\ IF \A i \in Scored : hits[i] = 0
               THEN ret.out = CatchAll
               ELSE \E i \in Scored :
                      /\ ret.out = CATEGORIES[i].id
                      /\ \A j \in Scored : hits[j] <= hits[i]
                      /\ \A j \in Scored : j < i => hits[j] < hits[i]

\* a call on a record for which two categories share the greatest score
C1_Witness ==
    /\ ret.fn = "categorize_repo"
    /\ LET text == search_text(repo)
       IN  \E i, j \in Scored :
             /\ i < j
             /\ Hits(i, text) > 0
             /\ Hits(i, text) = Hits(j, text)
             /\ \A k \in Scored : Hits(k, text) <= Hits(i, text)
             /\ ret.out = CATEGORIES[i].id

\* a timestamp fromisoformat accepts, and the instant it denotes
Parsable(r) == r.pushed_at # None /\ Val(r.pushed_at).form \in {"z", "offset", "naive"}
HasOffset(r) == r.pushed_at # None /\ Val(r.pushed_at).form \in {"z", "offset"}
PushedT(r) == Val(r.pushed_at).t

\* C2 as stated, for timestamps that carry a UTC offset (the form the API
\* sends): with archived = false the result is inactive when the timestamp is
\* older than the cutoff, active when it is newer, and inactive when it is
\* exactly the cutoff.
C2_Original ==
    (ret.fn = "is_inactive" /\ ~repo.archived /\ HasOffset(repo)) =>
        LET cutoff == ret.at - Window(months)
        IN  /\ ret.out.exc = ""
            /\ PushedT(repo) < cutoff => ret.out.value = TRUE
            /\ PushedT(repo) > cutoff => ret.out.value = FALSE
            /\ PushedT(repo) = cutoff => ret.out.value = TRUE

\* C2 amended: with archived = false and a parsable timestamp that carries
\* a UTC offset, the result is inactive exactly when the timestamp is
\* strictly older than the cutoff, so a timestamp at the cutoff is active; a
\* parsable timestamp without an offset is inactive.
C2_Amended ==
    (ret.fn = "is_inactive" /\ ~repo.archived /\ Parsable(repo)) =>
        LET cutoff == ret.at - Window(months)
        IN  /\ ret.out.exc = ""
            /\ HasOffset(repo) => (ret.out.value <=> PushedT(repo) < cutoff)
            /\ ~HasOffset(repo) => ret.out.value = TRUE

\* a call with the timestamp exactly at the cutoff, answered "active"
C2_Witness ==
    /\ ret.fn = "is_inactive"
    /\ ~repo.archived
    /\ HasOffset(repo)
    /\ PushedT(repo) = ret.at - Window(months)
    /\ ret.out.value = FALSE

\* C3: is_inactive returns inactive for every archived record whatever its
\* timestamp, and for every record whose timestamp is missing or does not
\* parse; no call raises.
C3_ArchivedOrUnparsable ==
    ret.fn = "is_inactive" =>
        /\ ret.out.exc = ""
        /\ (repo.archived \/ ~Parsable(repo)) => ret.out.value = TRUE

\* a call on a record that is not archived and whose timestamp does not parse
C3_Witness ==
    /\ ret.fn = "is_inactive"
    /\ ~repo.archived
    /\ repo.pushed_at # None
    /\ Val(repo.pushed_at).form = "garbage"
    /\ ret.out = [exc |-> "", value |-> TRUE]

\* the record is one generate_readme puts in active_repos at the time of the call
IsActive(r, t) == is_inactive(r, DefaultMonths, t).value = FALSE

\* C5: for an active record formatted with show_activity the badge is "fresh"
\* iff fewer than 30 whole days passed since the push, "recent" iff at least
\* 30 and fewer than 90; without show_activity (the legacy listing) there is
\* no badge; a timestamp that does not parse gives no badge and no error.
C5_Badge ==
    ret.fn = "format_repo_entry" =>
        /\ ret.out.exc = ""
        /\ ~ret.show => ret.out.activity = NoBadge
        /\ ~Parsable(repo) => ret.out.activity = NoBadge
        /\ (ret.show /\ IsActive(repo, ret.at)) =>
             LET elapsed == ret.at - PushedT(repo)
             IN  /\ ret.out.activity = FreshBadge <=> elapsed < FreshDays * TicksPerDay
                 /\ ret.out.activity = RecentBadge <=>
                       /\ FreshDays * TicksPerDay <= elapsed
                       /\ elapsed < RecentDays * TicksPerDay
                 /\ ret.out.activity \in {FreshBadge, RecentBadge, NoBadge}
        /\ LET d == generate_readme(EmptyCategories, << repo >>, ret.at).readme
           IN  \A i \in 1..Len(d.legacyEntries) : d.legacyEntries[i].activity = NoBadge

\* an active record pushed exactly 30 days before the call: "recent"
C5_Witness ==
    /\ ret.fn = "format_repo_entry"
    /\ ret.show
    /\ IsActive(repo, ret.at)
    /\ ret.at - PushedT(repo) = FreshDays * TicksPerDay
    /\ ret.out.activity = RecentBadge

\* the description is absent, null, empty or blank
BlankDescription(r) == r.description = None \/ strip(Val(r.description)) = << >>

\* C8: the entry shows the placeholder when the description is absent, null,
\* empty or blank after trimming, and the trimmed description otherwise.
C8_Placeholder ==
    ret.fn = "format_repo_entry" =>
        IF BlankDescription(repo)
        THEN ret.out.description = Some(NoDescription)
        ELSE ret.out.description = Some(strip(Val(repo.description)))

-----------------------------------------------------------------------------
(* Properties of the document and of main, checked under Spec *)

\* categorize_repo on the records of the fetched lists, tabulated: the
\* category depends on the topics, the description and the language only
TextKey(r) == << r.topics, r.description, r.language >>

CategoryTable ==
    [k \in {TextKey(Profile(p, 1)) : p \in Profiles} |->
        categorize_repo([topics |-> k[1], description |-> k[2], language |-> k[3]])]

CategoryOf(r) == CategoryTable[TextKey(r)]

CountIn(entries, url) == Cardinality({i \in 1..Len(entries) : entries[i].url = url})

\* C4: every input record appears once in the document: an inactive record
\* in the legacy listing and in no category section, an active record in the
\* section of the category categorize_repo returns and nowhere else; the
\* active and legacy counts of the Stats line add up to the record count.
C4_Partition ==
    doc # None =>
        LET d == Val(doc)
            t == ret.at
        IN  /\ d.total = Len(repos)
            /\ d.active + d.legacy = d.total
            /\ d.active = Cardinality({i \in 1..Len(repos) : IsActive(repos[i], t)})
            /\ \A i \in 1..Len(repos) :
                 LET url      == repos[i].html_url
                     inLegacy == CountIn(d.legacyEntries, url)
                     inSec(s) == CountIn(d.sections[s].entries, url)
                 IN  IF IsActive(repos[i], t)
                     THEN /\ inLegacy = 0
                          /\ \E s \in 1..Len(d.sections) :
                               /\ d.sections[s].id = CategoryOf(repos[i])
                               /\ inSec(s) = 1
                               /\ \A s2 \in 1..Len(d.sections) : s2 # s => inSec(s2) = 0
                     ELSE /\ inLegacy = 1
                          /\ \A s \in 1..Len(d.sections) : inSec(s) = 0

\* a document with a record in a category section and one in the legacy listing
C4_Witness ==
    /\ doc # None
    /\ Val(doc).active >= 1
    /\ Val(doc).legacy >= 1
    /\ Len(Val(doc).sections) >= 2

\* the place of a rendered record in the input list
Pos(url) == CHOOSE k \in 1..Len(repos) : repos[k].html_url = url

SortedStable(entries) ==
    \A i, j \in 1..Len(entries) :
        i < j => /\ entries[i].stars >= entries[j].stars
                 /\ entries[i].stars = entries[j].stars
                      => Pos(entries[i].url) < Pos(entries[j].url)

\* C6: in every category section and in the legacy listing the records are
\* in descending order of stars, and records with equal stars are in the
\* order of the input list.
C6_Sorted ==
    doc # None =>
        /\ \A s \in 1..Len(Val(doc).sections) : SortedStable(Val(doc).sections[s].entries)
        /\ SortedStable(Val(doc).legacyEntries)

\* a section where the sort moved a record past two records with equal stars
C6_Witness ==
    /\ doc # None
    /\ \E s \in 1..Len(Val(doc).sections) :
         LET e == Val(doc).sections[s].entries
         IN  /\ Len(e) >= 3
             /\ e[1].stars > e[2].stars
             /\ e[2].stars = e[3].stars
             /\ Pos(e[1].url) > Pos(e[2].url)

CatIdSeq == [i \in CatIndex |-> CATEGORIES[i].id]

\* C7: the table of contents has, in declaration order, a line for every
\* category with at least one record and one for "utilities" in any case,
\* each with the number of records of its section, then the legacy line with
\* the number of inactive records; the sections are those of the categories
\* with at least one record.
C7_Contents ==
    doc # None =>
        LET d == Val(doc)
            t == ret.at
            catOf == [i \in 1..Len(repos) |->
                        IF IsActive(repos[i], t) THEN CategoryOf(repos[i]) ELSE "" ]
            N(c)  == Cardinality({i \in 1..Len(repos) : catOf[i] = c})
            sectionOf(c) == CHOOSE s \in 1..Len(d.sections) : d.sections[s].id = c
        IN  /\ [i \in 1..Len(d.toc) |-> d.toc[i].id]
                 = SelectSeq(CatIdSeq, LAMBDA c : N(c) > 0 \/ c = CatchAll)
            /\ [i \in 1..Len(d.sections) |-> d.sections[i].id]
                 = SelectSeq(CatIdSeq, LAMBDA c : N(c) > 0)
            /\ \A i \in 1..Len(d.toc) :
                 /\ d.toc[i].count = N(d.toc[i].id)
                 /\ d.toc[i].count > 0 =>
                      Len(d.sections[sectionOf(d.toc[i].id)].entries) = d.toc[i].count
            /\ \A s \in 1..Len(d.sections) : d.sections[s].count = Len(d.sections[s].entries)
            /\ d.tocLegacy = Len(d.legacyEntries)
            /\ d.tocLegacy = Cardinality({i \in 1..Len(repos) : ~IsActive(repos[i], t)})

\* a table of contents with a category line, the line of the empty catch-all
\* and a legacy line that counts a record
C7_Witness ==
    /\ doc # None
    /\ LET d == Val(doc)
       IN  /\ Len(d.toc) = 2
           /\ d.toc[1].count > 0
           /\ d.toc[2] = [id |-> CatchAll, count |-> 0]
           /\ Len(d.sections) = 1
           /\ d.tocLegacy > 0

\* the fetch fails: the command ends with a non-zero status or prints a line
\* that is not JSON
FetchFails ==
    \/ response.status # 0
    \/ \E i \in 1..Len(response.lines) : response.lines[i].kind = "bad"

\* C9: classification and rendering start only after the one fetch has
\* succeeded, README.md is written only after that; when the fetch fails the
\* process ends at once with a non-zero status, there is no second fetch and
\* README.md is untouched.
C9_FetchFirst ==
    /\ fetchCalls <= 1
    /\ (pc \in {"generate", "write", "report"} \/ calls > 0 \/ doc # None)
         => (fetchCalls = 1 /\ ~FetchFails)
    /\ readme.writes > 0 => (fetchCalls = 1 /\ ~FetchFails /\ readme.content = doc /\ doc # None)
    /\ (FetchFails /\ fetchCalls = 1)
         => /\ pc = "exited"
            /\ exitCode = Some(1)
            /\ readme = [writes |-> 0, content |-> None]
            /\ calls = 0
            /\ doc = None
    /\ exitCode = Some(0) => readme.writes = 1

\* the command succeeded but printed a malformed line after a good one: the
\* process has ended with status 1
C9_Witness ==
    /\ response.status = 0
    /\ \E i, j \in 1..Len(response.lines) :
         /\ i < j
         /\ response.lines[i].kind = "json"
         /\ response.lines[j].kind = "bad"
    /\ fetchCalls = 1
    /\ pc = "exited"
    /\ exitCode = Some(1)
    /\ readme.writes = 0

-----------------------------------------------------------------------------
(* Repeated calls, checked under SpecCalls *)

\* C10: after any number of generate_readme calls each category list holds
\* exactly the active records of the last input that categorize_repo puts in
\* that category, so the category counts of the table of contents add up to
\* the active count of the Stats line.
C10_LastCallOnly ==
    calls > 0 =>
        LET d   == Val(doc)
            t   == ret.at
            act == active_repos(repos, t)
            tocSum[i \in 0..Len(d.toc)] == IF i = 0 THEN 0 ELSE tocSum[i - 1] + d.toc[i].count
        IN  /\ \A c \in CategoryIds :
                 catRepos[c] = sort_by_stars(SelectSeq(act, LAMBDA r : categorize_repo(r) = c))
            /\ tocSum[Len(d.toc)] = d.active
====
